---- MODULE Spec2Model ----
(***************************************************************************)
(* A model of AnotherBrowserifyBrunchPlugin (src/index.js), a brunch       *)
(* plugin that wires browserify/watchify into a gulp-style output          *)
(* pipeline.  src/index.js holds two variants of the plugin:               *)
(*   variant 1 (lines 1-190):   gulp stages (source, buffer, sourcemaps,   *)
(*                              custom stages, uglify, rename, dest)       *)
(*   variant 2 (lines 192-333): bundle stream piped through exorcist into  *)
(*                              fs.createWriteStream                       *)
(*                                                                         *)
(* Collaborating libraries are modelled by their interface only:           *)
(*  - a node stream that emits 'error' with no 'error' listener throws an  *)
(*    uncaught exception; pipe() does not forward errors downstream;       *)
(*  - the watchify decorator collects changed files, emits 'update' with   *)
(*    their paths later on, and close() closes its file watchers.          *)
(* Strings are sequences of one-character strings; file paths of the       *)
(* dependency graph are sequences <<directory, file number>>.              *)
(***************************************************************************)
EXTENDS Integers, Sequences, FiniteSets, TLC

VARIABLES
    phase,      \* "new" before the constructor ran, "ready" after it returned, "threw" when it threw
    config,     \* brunchConfig: the host configuration handed to the constructor
    obj,        \* the fields the constructor sets on the plugin object
    runs,       \* one record per call of bundle(): the pipeline it built and its progress
    uncaught,   \* "none", or the exception that propagated into the host process
    disk,       \* the file under the public directory and the sentinel file
    watcher,    \* the watchify decorator: open watchers, changed files not yet notified
    hist        \* counters of calls and events, and the order of the writes

vars == <<phase, config, obj, runs, uncaught, disk, watcher, hist>>

----------------------------------------------------------------------------
(* Bounds *)

MaxUpdates == 1     \* 'update' notifications the watcher raises
MaxFiles == 2       \* files one notification carries
MaxFns == 2         \* entries of gulpPipeCreateFns
MaxTeardowns == 1   \* calls of teardown()

----------------------------------------------------------------------------
(* Strings and paths (node's path module on relative posix paths) *)

RECURSIVE LastIndexOf(_, _)
\* position of the last c in s, 0 when there is none
LastIndexOf(s, c) ==
    IF s = <<>> THEN 0
    ELSE IF s[Len(s)] = c THEN Len(s)
    ELSE LastIndexOf(SubSeq(s, 1, Len(s) - 1), c)

\* path.basename(p)
BaseName(p) == SubSeq(p, LastIndexOf(p, "/") + 1, Len(p))

\* path.extname(p): from the last "." of the base name, "" for none or a leading dot
ExtName(p) ==
    LET b == BaseName(p)
        i == LastIndexOf(b, ".")
    IN  IF i <= 1 THEN <<>> ELSE SubSeq(b, i, Len(b))

\* path.basename(p, ext)
BaseNameExt(p, ext) ==
    LET b == BaseName(p)
        n == Len(b) - Len(ext)
    IN  IF ext # <<>> /\ n >= 1 /\ SubSeq(b, n + 1, Len(b)) = ext
        THEN SubSeq(b, 1, n)
        ELSE b

\* path.dirname(p)
DirName(p) ==
    LET i == LastIndexOf(p, "/")
    IN  IF i = 0 THEN <<".">> ELSE SubSeq(p, 1, i - 1)

\* path.join(d, f)
PathJoin(d, f) == IF d = <<".">> THEN f ELSE d \o <<"/">> \o f

\* stripFromBeginning(subject, query)
stripFromBeginning(subject, query) ==
    IF query = <<>> THEN subject
    ELSE IF Len(subject) >= Len(query) /\ SubSeq(subject, 1, Len(query)) = query
         THEN SubSeq(subject, Len(query) + 1, Len(subject))
         ELSE subject

\* process.cwd() + path.sep, as a path prefix of the dependency graph's files
CwdPrefix == <<"cwd">>

\* shortFileName(fileName)
shortFileName(fileName) == stripFromBeginning(fileName, CwdPrefix)

\* the absolute path of the i-th file of the dependency graph: odd ones lie
\* under the working directory, even ones outside it
FilePath(i) == IF i % 2 = 1 THEN <<"cwd", i>> ELSE <<"ext", i>>

\* the paths an 'update' notification with n changed files carries
ChangedFiles(n) == [i \in 1..n |-> FilePath(i)]

----------------------------------------------------------------------------
(* The host configuration *)

\* config.outFile values: "a.b", "d/a.b", "a", ".a", "a.b.c"
OutFiles ==
    { <<"a", ".", "b">>, <<"d", "/", "a", ".", "b">>, <<"a">>,
      <<".", "a">>, <<"a", ".", "b", ".", "c">> }

\* config.browserifyOptions: a mapping from option names to values
UserOptions ==
    { [k \in {} |-> "x"],
      [k \in {"debug"} |-> "false"],
      [k \in {"debug"} |-> "true"],
      [k \in {"debug", "extensions"} |-> IF k = "debug" THEN "false" ELSE ".ts"] }

RECURSIVE SeqsUpTo(_, _)
SeqsUpTo(S, n) ==
    IF n = 0 THEN { <<>> }
    ELSE LET shorter == SeqsUpTo(S, n - 1)
         IN  shorter \cup { Append(s, x) : s \in { t \in shorter : Len(t) = n - 1 }, x \in S }

\* an entry of gulpPipeCreateFns: a factory of stage A, a factory of stage B,
\* or something that is not a function
FnEntries == {"fnA", "fnB", "notFn"}

\* config.gulpPipeCreateFns: absent, a falsy value (0, '', null), a truthy
\* value that is not an array (a string, one function), or an array
PipeFnValues ==
    { [kind |-> k, items |-> <<>>] : k \in {"absent", "falsy", "nonArray"} }
    \cup { [kind |-> "array", items |-> s] : s \in SeqsUpTo(FnEntries, MaxFns) }

Configs ==
    [ variant : {1, 2},
      watch : BOOLEAN,              \* process.argv holds 'watch'
      sourceMaps : BOOLEAN,         \* brunchConfig.sourceMaps
      optimize : BOOLEAN,           \* brunchConfig.optimize
      touchOnCompile : BOOLEAN,     \* config.touchOnCompile is set
      outFile : OutFiles,
      browserifyOptions : UserOptions,
      gulpPipeCreateFns : PipeFnValues ]

----------------------------------------------------------------------------
(* The constructor *)

\* the options of b copied over those of a (the for-in copy of the constructor)
MergeOptions(a, b) ==
    [k \in DOMAIN a \cup DOMAIN b |-> IF k \in DOMAIN b THEN b[k] ELSE a[k]]

DefaultOptions == [k \in {"extensions"} |-> ".js,.es6"]

\* a slip the constructor could make: the debug flag is set before the host's
\* browserifyOptions are copied, so that the host's debug value wins
BundlerOptionsDebugFirst(cfg, watching) ==
    LET o1 == IF cfg.sourceMaps
              THEN MergeOptions(DefaultOptions, [k \in {"debug"} |-> "true"])
              ELSE DefaultOptions
        o2 == MergeOptions(o1, cfg.browserifyOptions)
    IN  IF watching
        THEN MergeOptions(o2, [k \in {"cache", "packageCache"} |-> "{}"])
        ELSE o2

\* bOptions: the options handed to browserify()
BundlerOptions(cfg, watching) ==
    LET o1 == MergeOptions(DefaultOptions, cfg.browserifyOptions)
        o2 == IF cfg.sourceMaps
              THEN MergeOptions(o1, [k \in {"debug"} |-> "true"])
              ELSE o1
    IN  IF watching
        THEN MergeOptions(o2, [k \in {"cache", "packageCache"} |-> "{}"])
        ELSE o2

\* a slip: the base name keeps its extension, so that rename appends it twice
RenameOptionsKeepExt(outFile) ==
    [ dirname |-> DirName(outFile),
      basename |-> BaseName(outFile),
      extname |-> ExtName(outFile) ]

\* this.gulpRenameOptions_
RenameOptions(outFile) ==
    LET extension == ExtName(outFile)
    IN  [ dirname |-> DirName(outFile),
          basename |-> BaseNameExt(outFile, extension),
          extname |-> extension ]

\* a slip: the bundler is wrapped with watchify in every mode
WrapAlways(watching) == TRUE

\* whether this.watchify_ is set: the bundler is wrapped only when watching
WrapWithWatchify(watching) == watching

\* the plugin object after the constructor's assignments
NewObject(cfg) ==
    [ watching_ |-> cfg.watch,
      bOptions |-> BundlerOptions(cfg, cfg.watch),
      gulpRenameOptions_ |-> RenameOptions(cfg.outFile),
      outFile_ |-> cfg.outFile,
      watchify_ |-> WrapWithWatchify(cfg.watch),
      updateListeners |-> IF WrapWithWatchify(cfg.watch) THEN 1 ELSE 0 ]

----------------------------------------------------------------------------
(* bundle(): the pipeline it builds *)

\* the stage a factory of gulpPipeCreateFns returns
CustomStage(entry) == IF entry = "fnA" THEN "custom:A" ELSE "custom:B"

RECURSIVE PipeCustom(_, _)
\* the forEach over gulpPipeCreateFns: pipes a stage per entry, throws at the
\* first entry that is not a function
PipeCustom(items, flow) ==
    IF items = <<>> THEN [stages |-> flow, threw |-> FALSE]
    ELSE IF Head(items) = "notFn" THEN [stages |-> flow, threw |-> TRUE]
    ELSE PipeCustom(Tail(items), Append(flow, CustomStage(Head(items))))

\* a slip: the minifier is piped before the custom stages
Pipeline1UglifyFirst(cfg) ==
    LET f1 == <<"bundle", "source", "buffer">>
        f2 == IF cfg.sourceMaps THEN Append(f1, "smInit") ELSE f1
        f3 == IF cfg.optimize THEN Append(f2, "uglify") ELSE f2
        fns == cfg.gulpPipeCreateFns
        c == IF fns.kind \in {"absent", "falsy"} THEN [stages |-> f3, threw |-> FALSE]
             ELSE IF fns.kind = "nonArray" THEN [stages |-> f3, threw |-> TRUE]
             ELSE PipeCustom(fns.items, f3)
        f5 == Append(c.stages, "rename")
        f6 == IF cfg.sourceMaps THEN Append(f5, "smWrite") ELSE f5
    IN  IF c.threw THEN c ELSE [stages |-> Append(f6, "dest"), threw |-> FALSE]

\* variant 1: the stages bundle() pipes, in the order it pipes them, and
\* whether it threw on the way
Pipeline1(cfg) ==
    LET f1 == <<"bundle", "source", "buffer">>
        f2 == IF cfg.sourceMaps THEN Append(f1, "smInit") ELSE f1
        fns == cfg.gulpPipeCreateFns
        c == IF fns.kind \in {"absent", "falsy"} THEN [stages |-> f2, threw |-> FALSE]
             ELSE IF fns.kind = "nonArray" THEN [stages |-> f2, threw |-> TRUE]
             ELSE PipeCustom(fns.items, f2)
        f4 == IF cfg.optimize THEN Append(c.stages, "uglify") ELSE c.stages
        f5 == Append(f4, "rename")
        f6 == IF cfg.sourceMaps THEN Append(f5, "smWrite") ELSE f5
    IN  IF c.threw THEN c ELSE [stages |-> Append(f6, "dest"), threw |-> FALSE]

\* variant 2: the bundle stream, exorcist when source maps are on, the file stream
Pipeline2(cfg) ==
    LET f1 == <<"bundle">>
        f2 == IF cfg.sourceMaps THEN Append(f1, "exorcist") ELSE f1
    IN  [stages |-> Append(f2, "fsWrite"), threw |-> FALSE]

\* the line bundle() logs before it starts the bundler
StartLog(changed, hasChanged) ==
    IF hasChanged /\ Len(changed) > 1 THEN << <<"Start", <<>> >> >> ELSE <<>>

\* the state of a pipeline run right after bundle(changedFiles) returned or threw
NewRun(cfg, changed, hasChanged) ==
    LET p == IF cfg.variant = 1 THEN Pipeline1(cfg) ELSE Pipeline2(cfg)
    IN  [ changed |-> changed,
          hasChanged |-> hasChanged,
          stages |-> p.stages,
          status |-> IF p.threw THEN "threw" ELSE "running",
          pos |-> 0,
          applied |-> <<>>,
          ops |-> <<>>,
          path |-> <<>>,
          sourceMap |-> FALSE,
          mapOut |-> FALSE,
          log |-> StartLog(changed, hasChanged),
          errors |-> <<>> ]

NoException == [kind |-> "none", what |-> ""]

----------------------------------------------------------------------------
(* The stages at work *)

\* the path source(this.entryFile_) gives the artifact: "e.js"
EntryFile == <<"e", ".", "j", "s">>

\* the relative path gulp-rename gives a file: join(dirname, basename + extname)
RenamedPath(o) == PathJoin(o.dirname, o.basename \o o.extname)

\* the run after its next stage handled the artifact
ApplyStage(r, o) ==
    LET st == r.stages[r.pos + 1]
        r1 == [r EXCEPT !.pos = r.pos + 1, !.applied = Append(r.applied, st)]
    IN  CASE st = "source"   -> [r1 EXCEPT !.path = EntryFile]
          [] st = "smInit"   -> [r1 EXCEPT !.sourceMap = TRUE, !.ops = Append(r.ops, "stripInlineMap")]
          [] st = "custom:A" -> [r1 EXCEPT !.ops = Append(r.ops, "A")]
          [] st = "custom:B" -> [r1 EXCEPT !.ops = Append(r.ops, "B")]
          [] st = "uglify"   -> [r1 EXCEPT !.ops = Append(r.ops, "minify")]
          [] st = "rename"   -> [r1 EXCEPT !.path = RenamedPath(o.gulpRenameOptions_)]
          [] st = "smWrite"  -> IF r.sourceMap
                                THEN [r1 EXCEPT !.mapOut = TRUE, !.ops = Append(r.ops, "mapUrl")]
                                ELSE r1
          [] st = "exorcist" -> [r1 EXCEPT !.mapOut = TRUE, !.ops = Append(r.ops, "exorcise")]
          [] st = "fsWrite"  -> [r1 EXCEPT !.path = o.outFile_]
          [] OTHER           -> r1     \* "bundle", "buffer", "dest": bytes and path unchanged

\* the stages that write to the disk: the last one of each variant
IsWriteStage(st) == st \in {"dest", "fsWrite"}

\* a slip: a batch logs only its first file
FinishLogFirstOnly(changed, hasChanged) ==
    IF ~hasChanged THEN <<>>
    ELSE IF Len(changed) > 1
         THEN << <<"Compiled", shortFileName(changed[1])>>, <<"Finished", <<>> >> >>
         ELSE << <<"CompiledIn", shortFileName(changed[1])>> >>

\* the lines the 'finish' handler logs for the changed files
FinishLog(changed, hasChanged) ==
    IF ~hasChanged THEN <<>>
    ELSE IF Len(changed) > 1
         THEN [i \in 1..Len(changed) |-> <<"Compiled", shortFileName(changed[i])>>]
              \o << <<"Finished", <<>> >> >>
         ELSE << <<"CompiledIn", shortFileName(changed[1])>> >>

\* a slip: the sentinel is never touched
TouchNever(cfg, mtime) == mtime

\* touch.sync in the 'finish' handler: the sentinel's modification time after it
TouchSentinel(cfg, mtime) == IF cfg.touchOnCompile THEN mtime + 1 ELSE mtime

\* the line variant 1 logs after the touch
ReloadLog(cfg) ==
    IF cfg.variant = 1 /\ cfg.touchOnCompile THEN << <<"Reload", <<>> >> >> ELSE <<>>

\* the only stream bundle() attaches an 'error' listener to is the bundler's
HasErrorListener(st) == st = "bundle"

----------------------------------------------------------------------------
(* The watcher *)

\* a slip: teardown leaves the watchers open
CloseNothing(watching, open) == open

\* teardown: this.bundler_.close() when watching, nothing otherwise
CloseOnTeardown(watching, open) == IF watching THEN FALSE ELSE open

\* a slip: a "build in progress" guard drops the request while a pipeline is in flight
RunsAfterBundleGuarded(rs, new) ==
    IF \E i \in 1..Len(rs) : rs[i].status = "running" THEN rs ELSE Append(rs, new)

\* bundle() builds a new pipeline whatever the earlier ones are doing
RunsAfterBundle(rs, new) == Append(rs, new)

----------------------------------------------------------------------------
(* Initial states *)

NoWatcher == [open |-> FALSE, pending |-> 0]
NoObject == [constructed |-> FALSE]
NoDisk == [writer |-> 0, path |-> <<>>, ops |-> <<>>, mapWriter |-> 0, mtime |-> 0]
NoHist == [bundleCalls |-> 0, updates |-> 0, teardowns |-> 0, writes |-> <<>>]

InitWith(cfgs) ==
    /\ phase = "new"
    /\ config \in cfgs
    /\ obj = NoObject
    /\ runs = <<>>
    /\ uncaught = NoException
    /\ disk = NoDisk
    /\ watcher = NoWatcher
    /\ hist = NoHist

\* every configuration
InitAll == InitWith(Configs)

\* the configurations the watch-mode behaviours are explored for
WatchConfigs ==
    { c \in Configs :
        /\ c.outFile = <<"a", ".", "b">>
        /\ c.browserifyOptions = [k \in {} |-> "x"]
        /\ \/ /\ ~c.sourceMaps /\ ~c.optimize
              /\ c.gulpPipeCreateFns = [kind |-> "absent", items |-> <<>>]
           \/ /\ c.sourceMaps /\ c.optimize
              /\ c.gulpPipeCreateFns = [kind |-> "array", items |-> <<"fnA">>] }

Init == InitWith(WatchConfigs)

----------------------------------------------------------------------------
(* Actions *)

\* new AnotherBrowserifyBrunchPlugin(brunchConfig), its call of this.bundle() included
Construct ==
    /\ phase = "new"
    /\ LET o == NewObject(config)
           r == NewRun(config, <<>>, FALSE)
       IN  /\ obj' = o
           /\ runs' = RunsAfterBundle(runs, r)
           /\ phase' = IF r.status = "threw" THEN "threw" ELSE "ready"
           /\ uncaught' = IF r.status = "threw"
                          THEN [kind |-> "throw", what |-> "gulpPipeCreateFns"]
                          ELSE uncaught
           /\ watcher' = [open |-> o.watchify_, pending |-> 0]
           /\ hist' = [hist EXCEPT !.bundleCalls = @ + 1]
    /\ UNCHANGED <<config, disk>>

Alive == phase = "ready" /\ uncaught.kind = "none"

\* a watched file changes on disk: watchify notes it for the next notification
FileChange ==
    /\ Alive
    /\ watcher.open
    /\ watcher.pending < MaxFiles
    /\ watcher' = [watcher EXCEPT !.pending = @ + 1]
    /\ UNCHANGED <<phase, config, obj, runs, uncaught, disk, hist>>

\* watchify emits 'update' with the changed paths: the listener runs bundle(changedFiles)
Update ==
    /\ Alive
    /\ watcher.pending > 0
    /\ hist.updates < MaxUpdates
    /\ LET r == NewRun(config, ChangedFiles(watcher.pending), TRUE)
           called == obj.updateListeners > 0
       IN  /\ runs' = IF called THEN RunsAfterBundle(runs, r) ELSE runs
           /\ uncaught' = IF called /\ r.status = "threw"
                          THEN [kind |-> "throw", what |-> "gulpPipeCreateFns"]
                          ELSE uncaught
           /\ hist' = [hist EXCEPT !.updates = @ + 1,
                                   !.bundleCalls = @ + obj.updateListeners]
    /\ watcher' = [watcher EXCEPT !.pending = 0]
    /\ UNCHANGED <<phase, config, obj, disk>>

\* the next stage of run i handles the artifact; the last stage writes it to
\* the disk and its 'finish' handler runs
Advance(i) ==
    /\ Alive
    /\ runs[i].status = "running"
    /\ LET r == runs[i]
           st == r.stages[r.pos + 1]
           r1 == ApplyStage(r, obj)
       IN  IF IsWriteStage(st)
           THEN /\ runs' = [runs EXCEPT ![i] =
                      [r1 EXCEPT !.status = "finished",
                                 !.log = r.log \o FinishLog(r.changed, r.hasChanged)
                                               \o ReloadLog(config)]]
                /\ disk' = [ writer |-> i, path |-> r1.path, ops |-> r1.ops,
                             mapWriter |-> IF r1.mapOut THEN i ELSE disk.mapWriter,
                             mtime |-> TouchSentinel(config, disk.mtime) ]
                /\ hist' = [hist EXCEPT !.writes = Append(@, i)]
           ELSE /\ runs' = [runs EXCEPT ![i] = r1]
                /\ disk' = IF st = "exorcist" THEN [disk EXCEPT !.mapWriter = i] ELSE disk
                /\ UNCHANGED hist
    /\ UNCHANGED <<phase, config, obj, uncaught, watcher>>

\* the next stage of run i emits 'error': logged when the stream has an
\* 'error' listener, thrown as an uncaught exception when it has none
StageError(i) ==
    /\ Alive
    /\ runs[i].status = "running"
    /\ LET r == runs[i]
           st == r.stages[r.pos + 1]
       IN  IF HasErrorListener(st)
           THEN /\ runs' = [runs EXCEPT ![i] =
                      [r EXCEPT !.status = "errored", !.errors = Append(r.errors, st)]]
                /\ UNCHANGED uncaught
           ELSE /\ runs' = [runs EXCEPT ![i] = [r EXCEPT !.status = "errored"]]
                /\ uncaught' = [kind |-> "error", what |-> st]
    /\ UNCHANGED <<phase, config, obj, disk, watcher, hist>>

\* teardown()
Teardown ==
    /\ Alive
    /\ hist.teardowns < MaxTeardowns
    /\ watcher' = [watcher EXCEPT !.open = CloseOnTeardown(obj.watching_, watcher.open)]
    /\ hist' = [hist EXCEPT !.teardowns = @ + 1]
    /\ UNCHANGED <<phase, config, obj, runs, uncaught, disk>>

\* the initial build alone: no file changes, no teardown
NextBuild ==
    \/ Construct
    \/ \E i \in 1..Len(runs) : Advance(i)
    \/ \E i \in 1..Len(runs) : StageError(i)

Next ==
    \/ Construct
    \/ FileChange
    \/ Update
    \/ \E i \in 1..Len(runs) : Advance(i)
    \/ \E i \in 1..Len(runs) : StageError(i)
    \/ Teardown

\* the plugin in watch or build mode, with file changes and teardown
Spec == Init /\ [][Next]_vars

\* the initial build of every configuration
SpecBuild == InitAll /\ [][NextBuild]_vars

----------------------------------------------------------------------------
(* Properties *)

RunIds == 1..Len(runs)
Finished(i) == runs[i].status = "finished"
InFlight(i) == runs[i].status = "running"

\* the custom stages of a configuration, one per entry of its list
CustomStagesOf(cfg) ==
    IF cfg.gulpPipeCreateFns.kind = "array"
    THEN [k \in 1..Len(cfg.gulpPipeCreateFns.items) |->
             IF cfg.gulpPipeCreateFns.items[k] = "fnA" THEN "custom:A" ELSE "custom:B"]
    ELSE <<>>

\* the fixed order of the stages, as the specification lists it
FixedOrder(cfg) ==
    <<"bundle", "source", "buffer">>
    \o (IF cfg.sourceMaps THEN <<"smInit">> ELSE <<>>)
    \o CustomStagesOf(cfg)
    \o (IF cfg.optimize THEN <<"uglify">> ELSE <<>>)
    \o <<"rename">>
    \o (IF cfg.sourceMaps THEN <<"smWrite">> ELSE <<>>)
    \o <<"dest">>

\* C1: every pipeline bundle() builds (variant 1) holds the stages in the
\* fixed order (serialize/buffer, source-map init if sourceMaps, the custom
\* stages in the order supplied, the minifier if optimize, rename, source-map
\* write if sourceMaps, the write), and the artifact passes them in that
\* order; so the minifier comes after every custom stage and before rename.
C1_StageOrder ==
    \A i \in RunIds :
        (config.variant = 1 /\ runs[i].status # "threw") =>
            /\ runs[i].stages = FixedOrder(config)
            /\ runs[i].applied = SubSeq(FixedOrder(config), 1, runs[i].pos)

\* a finished run with source maps, optimize and two different custom stages
C1_Witness ==
    /\ config.variant = 1 /\ config.sourceMaps /\ config.optimize
    /\ config.gulpPipeCreateFns = [kind |-> "array", items |-> <<"fnB", "fnA">>]
    /\ \E i \in RunIds : Finished(i) /\ Len(runs[i].applied) = 10

\* C2: a gulpPipeCreateFns that is set and is not an array makes bundle()
\* throw before the bundler's bundle() was called and before any stage was
\* piped (the run holds no stage, not even the bundle stream).
C2_FailFast ==
    (phase # "new" /\ config.variant = 1 /\ config.gulpPipeCreateFns.kind = "nonArray") =>
        /\ phase = "threw"
        /\ \A i \in RunIds : runs[i].status = "threw" /\ runs[i].stages = <<>>

\* C3: whichever stage of a run raises an error, the error is logged and
\* no exception reaches the host process.
C3_ErrorsLogged ==
    \A i \in RunIds :
        runs[i].status = "errored" => (runs[i].errors # <<>> /\ uncaught.kind = "none")

\* C4: with touchOnCompile set, the sentinel was touched once per run whose
\* write stage finished, and a run that errored added no touch; without it
\* the sentinel is never touched.
C4_TouchPerSuccess ==
    disk.mtime = IF config.touchOnCompile
                 THEN Cardinality({ i \in RunIds : Finished(i) })
                 ELSE 0

\* one run finished and touched the sentinel, another one failed and did not
C4_Witness ==
    /\ config.touchOnCompile
    /\ disk.mtime = 1
    /\ \E i, j \in RunIds : Finished(i) /\ runs[j].status = "errored"

IsFileLine(e) == e[1] # "Reload"

\* the name logged for a changed path: the path below the working directory
LoggedName(path) == IF path[1] = "cwd" THEN Tail(path) ELSE path

\* C5: every change notification starts exactly one run; when it finishes, a
\* run with N > 1 paths has logged a start line, one 'Compiled' line per path
\* and one 'Finished' line, a run with one path has logged exactly one
\* 'Compiled ... in' line, and the initial build has logged no such line.
C5_LogPerNotification ==
    /\ phase # "new" => Len(runs) = 1 + hist.updates
    /\ \A i \in RunIds :
         Finished(i) =>
            LET lines == SelectSeq(runs[i].log, IsFileLine)
                n == Len(runs[i].changed)
            IN  /\ (i = 1) = ~runs[i].hasChanged
                /\ ~runs[i].hasChanged => lines = <<>>
                /\ (runs[i].hasChanged /\ n = 1) =>
                       lines = << <<"CompiledIn", LoggedName(runs[i].changed[1])>> >>
                /\ (runs[i].hasChanged /\ n > 1) =>
                       /\ Len(lines) = n + 2
                       /\ lines[1] = <<"Start", <<>> >>
                       /\ \A k \in 1..n : lines[k + 1] = <<"Compiled", LoggedName(runs[i].changed[k])>>
                       /\ lines[n + 2] = <<"Finished", <<>> >>

\* a run started by a notification with two paths has finished
C5_Witness ==
    \E i \in RunIds : Finished(i) /\ runs[i].hasChanged /\ Len(runs[i].changed) = 2

\* C6: bundle() is called once by the constructor; when not watching it is
\* never called again, when watching it is called once more per 'update'
\* notification and for no other reason.
C6_BundleCalls ==
    phase # "new" =>
        /\ hist.bundleCalls = 1 + hist.updates
        /\ Len(runs) = hist.bundleCalls
        /\ ~config.watch => hist.bundleCalls = 1

\* watching, after one notification: two calls
C6_Witness == config.watch /\ hist.updates = 1 /\ hist.bundleCalls = 2

\* whether the configuration pipes a custom stage
HasCustomStage(cfg) == cfg.variant = 1 /\ CustomStagesOf(cfg) # <<>>

\* C7 as stated: with source maps and optimize off, the file written under the
\* public directory holds the bundler's output unchanged, at the configured
\* output name.
C7_ByteIdentical ==
    (disk.writer # 0 /\ ~config.sourceMaps /\ ~config.optimize) =>
        (disk.ops = <<>> /\ disk.path = config.outFile)

\* C7, amended: the same, for the configurations that pipe no custom stage.
C7_ByteIdenticalNoCustom ==
    (disk.writer # 0 /\ ~config.sourceMaps /\ ~config.optimize /\ ~HasCustomStage(config)) =>
        (disk.ops = <<>> /\ disk.path = config.outFile)

\* variant 1 wrote "d/a.b" with an empty list of custom stages
C7_Witness ==
    /\ disk.writer # 0 /\ ~config.sourceMaps /\ ~config.optimize
    /\ config.variant = 1
    /\ config.gulpPipeCreateFns = [kind |-> "array", items |-> <<>>]
    /\ config.outFile = <<"d", "/", "a", ".", "b">>

IsMapStage(st) == st \in {"smWrite", "exorcist"}
HasMapStage(stages) == \E k \in 1..Len(stages) : IsMapStage(stages[k])

\* C8: with source maps on, the options handed to the bundler have debug set,
\* whatever the host's browserifyOptions say, and every pipeline holds a
\* map-emitting stage, which every finished run has passed and which wrote the
\* map; with source maps off no pipeline holds one.
C8_SourceMaps ==
    phase # "new" =>
        /\ config.sourceMaps => obj.bOptions["debug"] = "true"
        /\ \A i \in RunIds :
             /\ runs[i].status # "threw" => (HasMapStage(runs[i].stages) <=> config.sourceMaps)
             /\ Finished(i) => /\ HasMapStage(runs[i].applied) <=> config.sourceMaps
                               /\ runs[i].mapOut <=> config.sourceMaps

\* the host set debug to false, source maps are on, and a run wrote its map
C8_Witness ==
    /\ config.sourceMaps
    /\ "debug" \in DOMAIN config.browserifyOptions
    /\ config.browserifyOptions["debug"] = "false"
    /\ disk.mapWriter # 0
    /\ \E i \in RunIds : Finished(i)

\* C9: teardown when watching closes the watchers, and from then on no file
\* change is noted, so none starts a bundle request; teardown when not
\* watching changes nothing.
C9_Teardown ==
    /\ []((hist.teardowns > 0 /\ obj.watching_) => ~watcher.open)
    /\ [][hist.teardowns > 0 => watcher'.pending <= watcher.pending]_vars
    /\ [][(hist.teardowns' > hist.teardowns /\ ~obj.watching_) =>
              UNCHANGED <<phase, config, obj, runs, uncaught, disk, watcher>>]_vars

\* torn down while watching, with a pipeline still in flight
C9_Witness ==
    /\ hist.teardowns > 0 /\ config.watch /\ ~watcher.open
    /\ \E i \in RunIds : InFlight(i)

\* C10: a notification starts a new pipeline at once, whatever the earlier
\* ones are doing, and leaves them as they are; the file on disk is the one the
\* last writer wrote (variant 1, where gulp.dest writes the buffered artifact
\* as a whole); a pipeline in flight is never cancelled: it only moves on,
\* finishes or fails.
C10_NoSerialization ==
    /\ [][hist.updates' > hist.updates =>
              /\ Len(runs') = Len(runs) + 1
              /\ runs'[Len(runs')].status \in {"running", "threw"}
              /\ runs'[Len(runs')].pos = 0
              /\ \A i \in RunIds : runs'[i] = runs[i]]_vars
    /\ []((config.variant = 1 /\ hist.writes # <<>>) =>
              LET w == hist.writes[Len(hist.writes)]
              IN  disk.writer = w /\ disk.ops = runs[w].ops /\ disk.path = runs[w].path)
    /\ [][\A i \in RunIds :
              InFlight(i) => /\ runs'[i].status \in {"running", "finished", "errored"}
                             /\ runs'[i].pos >= runs[i].pos
                             /\ runs'[i].stages = runs[i].stages]_vars

\* the pipeline of the initial build wrote after the pipeline of the update did
C10_Witness == config.variant = 1 /\ hist.writes = <<2, 1>> /\ disk.writer = 1

====
